---- MODULE Spec2Model ----
(***************************************************************************)
(* Model of mrpro's k-space trajectory container (KTrajectory): the        *)
(* construction-time repeat reduction and validation (__post_init__), the  *)
(* stacked-tensor converters (from_tensor / as_tensor), the trajectory     *)
(* type classifier (_traj_types) and the device / dtype conversions        *)
(* (to / cuda / cpu).                                                      *)
(*                                                                         *)
(* Numbers.  A tensor element is an integer count of 1e-8, so that the     *)
(* three tolerances of the source (1e-3, 1e-3, 1e-8) and the values of the *)
(* test scenarios (0.0004, -0.0003, 0.0, 1.0) are all exact:               *)
(*     1.0 = One,   1e-3 = 100000,   1e-4 = 10000,   1e-8 = 1.             *)
(* A tolerance is a record [kind, v]: kind "num" with such a count v, or   *)
(* kind "None", "inf" or "nan".  No value lies on the boundary of a        *)
(* comparison, so the rounding of float32 / float64 arithmetic (far below  *)
(* 1e-8 for these magnitudes) cannot change the outcome of a comparison.   *)
(*                                                                         *)
(* Tensors.  A tensor is a record                                          *)
(*     [shape, dtype, device, vals]                                        *)
(* with shape a sequence of axis lengths and vals a function from the      *)
(* multi-indices of that shape (1-based tuples) to elements.               *)
(***************************************************************************)
EXTENDS Integers, Sequences, FiniteSets, TLC

\* ------------------------------------------------------------------ bounds
\* Largest axis length of an input array.
MaxDim == 3
\* Largest number of elements of an enumerated input array.
MaxElems == 4
\* Largest number of slices of a stacked input tensor.
MaxStack == 4

\* ------------------------------------------------------- program constants
\* KTrajectory.grid_detection_tolerance default, 1e-3.
DefaultGridTol == 100000
\* KTrajectory.repeat_detection_tolerance default, 1e-3.
DefaultRepeatTol == 100000
\* KTrajectory.from_tensor repeat_detection_tolerance default, 1e-8.
FromTensorRepeatTol == 1
\* Minimal rank of the broadcast shape.
MinRank == 4

\* 1.0 in units of 1e-8.
One == 10 ^ 8

Abs(x) == IF x < 0 THEN -x ELSE x
Max2(a, b) == IF a >= b THEN a ELSE b

\* Tolerances: a finite float, None, inf, nan.
Num(v) == [kind |-> "num", v |-> v]
NoneTol == [kind |-> "None", v |-> 0]
InfTol == [kind |-> "inf", v |-> 0]
NanTol == [kind |-> "nan", v |-> 0]

\* x <= tol for a float tolerance: inf bounds everything, nan compares False.
LeqTol(x, tol) ==
  CASE tol.kind = "inf" -> TRUE
    [] tol.kind = "nan" -> FALSE
    [] OTHER -> x <= tol.v

\* torch.round: nearest integer, ties to even.
Round(v) ==
  LET q == v \div One
      r == v % One
  IN  IF 2 * r < One THEN q * One
      ELSE IF 2 * r > One THEN (q + 1) * One
      ELSE IF q % 2 = 0 THEN q * One ELSE (q + 1) * One

\* Conversion of a floating value to an integer dtype: truncation toward zero.
Trunc(v) == IF v >= 0 THEN (v \div One) * One ELSE -(((-v) \div One) * One)

FloatDtypes == {"float32", "float64"}
is_floating_point(t) == t.dtype \in FloatDtypes

\* ------------------------------------------------------------ tensor algebra
RECURSIVE Numel(_)
Numel(shape) == IF shape = << >> THEN 1 ELSE Head(shape) * Numel(Tail(shape))

\* The multi-indices of a shape.
RECURSIVE MIdx(_)
MIdx(shape) ==
  IF shape = << >> THEN {<< >>}
  ELSE {<< h >> \o t : h \in 1..Head(shape), t \in MIdx(Tail(shape))}

\* Tensor.to(dtype): element conversion between dtypes.
ConvertValue(v, from, to) ==
  IF to \in FloatDtypes THEN v
  ELSE IF from \in FloatDtypes THEN Trunc(v) ELSE v

TensorTo(t, dtype, device) ==
  [shape |-> t.shape, dtype |-> dtype, device |-> device,
   vals |-> [i \in DOMAIN t.vals |-> ConvertValue(t.vals[i], t.dtype, dtype)]]

\* np.broadcast_shapes: right-aligned, sizes equal or 1; raises ValueError
\* otherwise.  The result is [raised, shape].
PadShape(s, rank) ==
  [d \in 1..rank |-> IF d <= rank - Len(s) THEN 1 ELSE s[d - (rank - Len(s))]]

broadcast_shapes(s1, s2, s3) ==
  LET rank == Max2(Len(s1), Max2(Len(s2), Len(s3)))
      p1 == PadShape(s1, rank)
      p2 == PadShape(s2, rank)
      p3 == PadShape(s3, rank)
      sizes(d) == {p1[d], p2[d], p3[d]} \ {1}
  IN  IF \E d \in 1..rank : Cardinality(sizes(d)) > 1
      THEN [raised |-> TRUE, shape |-> << >>]
      ELSE [raised |-> FALSE,
            shape |-> [d \in 1..rank |-> Max2(p1[d], Max2(p2[d], p3[d]))]]

\* Tensor.expand(*shape): a broadcast view of t with the given shape.
expand(t, shape) ==
  LET off == Len(shape) - Len(t.shape)
  IN  [shape |-> shape, dtype |-> t.dtype, device |-> t.device,
       vals |-> [i \in MIdx(shape) |->
                   t.vals[[d \in 1..Len(t.shape) |->
                             IF t.shape[d] = 1 THEN 1 ELSE i[d + off]]]]]

\* torch result type of mixed dtypes.
PromoteDtype(a, b) ==
  IF a = "float64" \/ b = "float64" THEN "float64"
  ELSE IF a = "float32" \/ b = "float32" THEN "float32"
  ELSE "int32"

\* A shape / index with an entry inserted at 0-based position dim.
InsertAt(s, dim, x) ==
  [d \in 1..(Len(s) + 1) |-> IF d <= dim THEN s[d] ELSE IF d = dim + 1 THEN x ELSE s[d - 1]]

\* A shape / index with the entry at 0-based position dim removed.
RemoveAt(s, dim) ==
  [d \in 1..(Len(s) - 1) |-> IF d <= dim THEN s[d] ELSE s[d + 1]]

\* The promoted dtype of a non-empty sequence of tensors.
RECURSIVE PromoteAll(_)
PromoteAll(ts) ==
  IF Len(ts) = 1 THEN ts[1].dtype ELSE PromoteDtype(ts[1].dtype, PromoteAll(Tail(ts)))

\* torch.stack(ts, dim) of a non-empty sequence of tensors of one shape.
stack(ts, dim) ==
  LET dt == PromoteAll(ts)
      shape == InsertAt(ts[1].shape, dim, Len(ts))
  IN  [shape |-> shape, dtype |-> dt, device |-> ts[1].device,
       vals |-> [i \in MIdx(shape) |->
                   ConvertValue(ts[i[dim + 1]].vals[RemoveAt(i, dim)],
                                ts[i[dim + 1]].dtype, dt)]]

\* torch.unbind(tensor, dim): the slices of the tensor along dim, as a sequence.
unbind(t, dim) ==
  [k \in 1..t.shape[dim + 1] |->
     [shape |-> RemoveAt(t.shape, dim), dtype |-> t.dtype, device |-> t.device,
      vals |-> [i \in MIdx(RemoveAt(t.shape, dim)) |-> t.vals[InsertAt(i, dim, k)]]]]

\* ------------------------------------------------------------ repeat reducer
\* mrpro.utils.remove_repeat: every axis along which all values are equal within
\* tol is collapsed to length 1, keeping its first entry; the other axes are kept.
can_be_singleton(t, dim, tol) ==
  \A i \in DOMAIN t.vals : \A j \in DOMAIN t.vals :
    (\A d \in 1..Len(t.shape) : d # dim => i[d] = j[d])
      => LeqTol(Abs(t.vals[i] - t.vals[j]), tol)

remove_repeat(t, tol) ==
  LET shape == [d \in 1..Len(t.shape) |->
                  IF can_be_singleton(t, d, tol) THEN 1 ELSE t.shape[d]]
  IN  [shape |-> shape, dtype |-> t.dtype, device |-> t.device,
       vals |-> [i \in MIdx(shape) |-> t.vals[i]]]

\* ---------------------------------------------------------------- container
\* as_any_float with its condition inverted: floating tensors are cast to
\* float32 and integer tensors are kept.
as_any_float_Inverted(t) ==
  IF is_floating_point(t) THEN TensorTo(t, "float32", t.device) ELSE t

\* __post_init__.as_any_float: tensor.float() unless already floating.
as_any_float(t) ==
  IF ~is_floating_point(t) THEN TensorTo(t, "float32", t.device) ELSE t

\* The kz, ky, kx stored by __post_init__: reduced and promoted when repeat
\* detection is enabled, the constructor's arguments otherwise.
StoredArray(t, rtol) ==
  IF rtol.kind # "None" THEN as_any_float(remove_repeat(t, rtol)) ELSE t

\* No container: the value of a name whose construction raised.
NoTraj == [none |-> TRUE]
Raise(e) == [raised |-> e, T |-> NoTraj]

\* KTrajectory.broadcasted_shape.
broadcasted_shape(T) == broadcast_shapes(T.kx.shape, T.ky.shape, T.kz.shape)

\* __post_init__ validating the shapes of its arguments before the reduction
\* instead of the shapes it stores.
KTrajectory_ValidatesInputShapes(kz, ky, kx, gtol, rtol) ==
  LET T == [kz |-> StoredArray(kz, rtol),
            ky |-> StoredArray(ky, rtol),
            kx |-> StoredArray(kx, rtol),
            grid_detection_tolerance |-> gtol,
            repeat_detection_tolerance |-> rtol]
      shape == broadcast_shapes(kx.shape, ky.shape, kz.shape)
  IN  IF shape.raised THEN Raise("ValueError")
      ELSE IF Len(shape.shape) < MinRank THEN Raise("ValueError")
      ELSE [raised |-> "none", T |-> T]

\* __post_init__ without the check of the broadcast rank.
KTrajectory_NoRankCheck(kz, ky, kx, gtol, rtol) ==
  LET T == [kz |-> StoredArray(kz, rtol),
            ky |-> StoredArray(ky, rtol),
            kx |-> StoredArray(kx, rtol),
            grid_detection_tolerance |-> gtol,
            repeat_detection_tolerance |-> rtol]
  IN  IF broadcasted_shape(T).raised THEN Raise("ValueError")
      ELSE [raised |-> "none", T |-> T]

\* KTrajectory(kz, ky, kx, grid_detection_tolerance, repeat_detection_tolerance):
\* the dataclass constructor followed by __post_init__.  The result is
\* [raised, T]: the exception __post_init__ raises ("none" when it returns) and
\* the container.
KTrajectory(kz, ky, kx, gtol, rtol) ==
  LET T == [kz |-> StoredArray(kz, rtol),
            ky |-> StoredArray(ky, rtol),
            kx |-> StoredArray(kx, rtol),
            grid_detection_tolerance |-> gtol,
            repeat_detection_tolerance |-> rtol]
      shape == broadcasted_shape(T)
  IN  IF shape.raised THEN Raise("ValueError")
      ELSE IF Len(shape.shape) < MinRank THEN Raise("ValueError")
      ELSE [raised |-> "none", T |-> T]

\* from_tensor unpacking the slices as kx, ky, kz.
from_tensor_UnpacksXYZ(tensor, stack_dim, rtol, gtol) ==
  LET parts == unbind(tensor, stack_dim)
  IN  IF Len(parts) # 3 THEN Raise("ValueError")
      ELSE KTrajectory(parts[3], parts[2], parts[1], gtol, rtol)

\* KTrajectory.from_tensor: unbind along stack_dim into exactly kz, ky, kx.
from_tensor(tensor, stack_dim, rtol, gtol) ==
  LET parts == unbind(tensor, stack_dim)
  IN  IF Len(parts) # 3 THEN Raise("ValueError")
      ELSE KTrajectory(parts[1], parts[2], parts[3], gtol, rtol)

\* as_tensor stacking in the order kx, ky, kz, the order broadcasted_shape reads
\* the arrays in.
as_tensor_StacksXYZ(T, stack_dim) ==
  LET shape == broadcasted_shape(T).shape
  IN  stack(<< expand(T.kx, shape), expand(T.ky, shape), expand(T.kz, shape) >>, stack_dim)

\* KTrajectory.as_tensor.
as_tensor(T, stack_dim) ==
  LET shape == broadcasted_shape(T).shape
  IN  stack(<< expand(T.kz, shape), expand(T.ky, shape), expand(T.kx, shape) >>, stack_dim)

\* KTrajectory.to / cuda / cpu: a new KTrajectory of the converted tensors; the
\* tolerances are not passed on, so the dataclass defaults apply.
to(T, dtype, device) ==
  KTrajectory(TensorTo(T.kz, dtype, device), TensorTo(T.ky, dtype, device),
              TensorTo(T.kx, dtype, device), Num(DefaultGridTol), Num(DefaultRepeatTol))

cuda(T) ==
  KTrajectory(TensorTo(T.kz, T.kz.dtype, "cuda"), TensorTo(T.ky, T.ky.dtype, "cuda"),
              TensorTo(T.kx, T.kx.dtype, "cuda"), Num(DefaultGridTol), Num(DefaultRepeatTol))

cpu(T) ==
  KTrajectory(TensorTo(T.kz, T.kz.dtype, "cpu"), TensorTo(T.ky, T.ky.dtype, "cpu"),
              TensorTo(T.kx, T.kx.dtype, "cpu"), Num(DefaultGridTol), Num(DefaultRepeatTol))

\* --------------------------------------------------------------- classifier
\* TrajType flags; a flag value is the set of the flags that are set.
SINGLEVALUE == {"SINGLEVALUE"}
ONGRID == {"ONGRID"}

\* values_on_grid of _traj_types.
values_on_grid(ks, tolerance) ==
  ~is_floating_point(ks)
    \/ \A i \in DOMAIN ks.vals : LeqTol(Abs(ks.vals[i] - Round(ks.vals[i])), tolerance)

\* The cell with an axis of length 1 marked SINGLEVALUE only.
traj_type_cell_SingletonNotOnGrid(ks, dim, tolerance) ==
  (IF ks.shape[Len(ks.shape) + 1 + dim] = 1 THEN SINGLEVALUE ELSE {})
    \cup (IF values_on_grid(ks, tolerance) THEN ONGRID ELSE {})

\* traj_type_matrix[ind, dim] of _traj_types, dim one of -3, -2, -1.
traj_type_cell(ks, dim, tolerance) ==
  (IF ks.shape[Len(ks.shape) + 1 + dim] = 1 THEN SINGLEVALUE \cup ONGRID ELSE {})
    \cup (IF values_on_grid(ks, tolerance) THEN ONGRID ELSE {})

traj_type_matrix(T, tolerance) ==
  [ind \in 1..3 |->
     [col \in 1..3 |->
        traj_type_cell(IF ind = 1 THEN T.kz ELSE IF ind = 2 THEN T.ky ELSE T.kx,
                       col - 4, tolerance)]]

\* _traj_types: the AND of each row (kz, ky, kx) and of each column (k2, k1, k0).
traj_types(T, tolerance) ==
  LET m == traj_type_matrix(T, tolerance)
  IN  << [ind \in 1..3 |-> m[ind][1] \cap m[ind][2] \cap m[ind][3]],
         [col \in 1..3 |-> m[1][col] \cap m[2][col] \cap m[3][col]] >>

\* type_along_kzyx classifying with the class default instead of the
\* container's grid_detection_tolerance.
type_along_kzyx_DefaultTol(T) == traj_types(T, Num(DefaultGridTol))[1]

\* KTrajectory.type_along_kzyx and type_along_k210.
type_along_kzyx(T) == traj_types(T, T.grid_detection_tolerance)[1]
type_along_k210(T) == traj_types(T, T.grid_detection_tolerance)[2]

\* ------------------------------------------------------------------- inputs
\* Element values of the enumerated arrays: -0.0003, 0.0, 0.0004.
FloatVals == {-30000, 0, 40000}

Dtypes == {"int32", "float32", "float64"}

\* Shapes (other, k2, k1, k0) with axes up to MaxDim and at most MaxElems elements.
Shapes == {s \in [1..MinRank -> 1..MaxDim] : Numel(s) <= MaxElems}

\* Every array of a shape, on the CPU.
ArraysOf(shape, dtype, values) ==
  {[shape |-> shape, dtype |-> dtype, device |-> "cpu", vals |-> v] :
     v \in [MIdx(shape) -> values]}

\* The enumerated arrays: every float32 array of every shape of Shapes.
Enumerated == UNION {ArraysOf(s, "float32", FloatVals) : s \in Shapes}

\* The array 0, 1, 2, ... along one axis (a Cartesian encoding direction).
Ramp(rank, axis, len, dtype) ==
  LET shape == [d \in 1..rank |-> IF d = axis THEN len ELSE 1]
  IN  [shape |-> shape, dtype |-> dtype, device |-> "cpu",
       vals |-> [i \in MIdx(shape) |-> (i[axis] - 1) * One]]

\* A single zero of shape (1, 1, 1, 1).
Zero == Ramp(MinRank, MinRank, 1, "float32")

\* The array 0.0004, -0.0003, 0.0 along k0.
Jitter ==
  [shape |-> << 1, 1, 1, 3 >>, dtype |-> "float32", device |-> "cpu",
   vals |-> [i \in MIdx(<< 1, 1, 1, 3 >>) |->
               IF i[4] = 1 THEN 40000 ELSE IF i[4] = 2 THEN -30000 ELSE 0]]

\* Ramps of rank 4 along each axis, integer for length 2 and float64 beyond,
\* the single zero, and ramps of rank 3.
Ramps ==
  {Ramp(MinRank, axis, len, IF len = 2 THEN "int32" ELSE "float64") :
     axis \in 1..MinRank, len \in 2..MaxDim}
    \cup {Zero}
    \cup {Ramp(MinRank - 1, MinRank - 1, len, "float32") : len \in 1..2}

\* The companions of an enumerated array: a single zero, or 0, 1, 2, .. along k0.
Companions == {Zero, Ramp(MinRank, MinRank, MaxDim, "float64")}

\* The (kz, ky, kx) given to the constructor: one enumerated array in any
\* position beside a companion and a single zero, or three ramps.
InputTriples ==
  {<< a, c, Zero >> : a \in Enumerated, c \in Companions}
    \cup {<< Zero, a, c >> : a \in Enumerated, c \in Companions}
    \cup {<< c, Zero, a >> : a \in Enumerated, c \in Companions}
    \cup (Ramps \X Ramps \X Ramps)

\* (grid_detection_tolerance, repeat_detection_tolerance) given to a constructor:
\* 1e-3 or 1e-4 with None, 1e-8, 5e-4 or 1e-3, and the out-of-range pairs.
ValidTolPairs ==
  {Num(DefaultGridTol), Num(10000)}
    \X {NoneTol, Num(FromTensorRepeatTol), Num(50000), Num(DefaultRepeatTol)}
InvalidTolPairs ==
  {<< Num(-DefaultGridTol), Num(DefaultRepeatTol) >>,
   << NanTol, Num(DefaultRepeatTol) >>,
   << Num(DefaultGridTol), Num(0) >>,
   << Num(DefaultGridTol), Num(-DefaultRepeatTol) >>,
   << Num(DefaultGridTol), InfTol >>,
   << Num(DefaultGridTol), NanTol >>}
TolPairs == ValidTolPairs \cup InvalidTolPairs

\* The slices of the stacked tensors given to from_tensor: arrays of shape
\* (1, 1, 1, 2).
Slices ==
  LET shape == << 1, 1, 1, 2 >>
  IN  {Ramp(MinRank, MinRank, 2, "float32"), Ramp(MinRank, MinRank, 2, "int32")}
        \cup ArraysOf(shape, "float32", {0})
        \cup ArraysOf(shape, "float64", {-30000, 40000})

\* A tensor with no slice along its axis dim: size 0 there.
EmptyStack(dim) ==
  [shape |-> InsertAt(<< 1, 1, 1, 2 >>, dim, 0), dtype |-> "float32", device |-> "cpu",
   vals |-> [i \in MIdx(InsertAt(<< 1, 1, 1, 2 >>, dim, 0)) |-> 0]]

\* The stacked tensors given to from_tensor, with the axis they are stacked on:
\* 0 to MaxStack slices.
StackedInputs ==
  {[tensor |-> stack(ts, dim), stack_dim |-> dim] :
     ts \in UNION {[1..n -> Slices] : n \in 1..MaxStack}, dim \in {0, MinRank}}
    \cup {[tensor |-> EmptyStack(dim), stack_dim |-> dim] : dim \in {0, MinRank}}

\* The inputs of a session that goes on to convert and export its container:
\* a single zero, a single zero of rank 3, ramps along k1 and k0, and the array
\* 0.0004, -0.0003, 0.0 along k0.
SessionTriples ==
  {Zero, Ramp(MinRank - 1, MinRank - 1, 1, "float32"),
   Ramp(MinRank, MinRank - 1, 2, "int32")}
    \X {Zero, Ramp(MinRank - 1, MinRank - 1, 1, "float32"),
        Ramp(MinRank, MinRank, 2, "int32"), Jitter}
    \X {Zero, Ramp(MinRank - 1, MinRank - 1, 1, "float32"),
        Ramp(MinRank, MinRank, 3, "float64"), Jitter}
SessionTolPairs ==
  {Num(DefaultGridTol), Num(10000)} \X {NoneTol, Num(DefaultRepeatTol)}
SessionStacked ==
  {[tensor |-> stack(<< a, b, c >>, dim), stack_dim |-> dim] :
     a \in Slices, b \in {Ramp(MinRank, MinRank, 2, "float32")}, c \in Slices,
     dim \in {0, MinRank}}

\* ------------------------------------------------------------ state machine
VARIABLES
  traj,    \* the container the program holds, NoTraj when there is none
  op,      \* the last operation called
  args,    \* its arguments
  raised,  \* the exception it raised, "none" when it returned
  ret      \* the tensor as_tensor returned to it, NoRet when none

vars == << traj, op, args, raised, ret >>

NoRet == [none |-> TRUE]
HasTraj == traj # NoTraj

Init ==
  /\ traj = NoTraj
  /\ op = "init"
  /\ args = [none |-> TRUE]
  /\ raised = "none"
  /\ ret = NoRet

\* traj = KTrajectory(kz, ky, kx, grid_detection_tolerance, repeat_detection_tolerance)
ConstructFrom(triples, tols) ==
  /\ op = "init"
  /\ \E k \in triples : \E tol \in tols :
       LET r == KTrajectory(k[1], k[2], k[3], tol[1], tol[2])
       IN  /\ traj' = r.T
           /\ raised' = r.raised
           /\ args' = [kz |-> k[1], ky |-> k[2], kx |-> k[3],
                       gtol |-> tol[1], rtol |-> tol[2]]
  /\ op' = "construct"
  /\ ret' = NoRet

\* traj = KTrajectory.from_tensor(tensor, stack_dim, repeat_detection_tolerance,
\*                                grid_detection_tolerance)
FromTensorFrom(stacked, rtols, gtols) ==
  /\ op = "init"
  /\ \E in \in stacked : \E rtol \in rtols : \E gtol \in gtols :
       LET r == from_tensor(in.tensor, in.stack_dim, rtol, gtol)
       IN  /\ traj' = r.T
           /\ raised' = r.raised
           /\ args' = [tensor |-> in.tensor, stack_dim |-> in.stack_dim,
                       gtol |-> gtol, rtol |-> rtol]
  /\ op' = "from_tensor"
  /\ ret' = NoRet

Construct == ConstructFrom(SessionTriples, SessionTolPairs)

FromTensor ==
  FromTensorFrom(SessionStacked, {NoneTol, Num(FromTensorRepeatTol)},
                 {Num(DefaultGridTol)})

\* The outcome of a conversion of the held container.
Converted(name, r, a) ==
  /\ traj' = r.T
  /\ raised' = r.raised
  /\ op' = name
  /\ args' = a
  /\ ret' = NoRet

\* traj = traj.to(dtype)
To ==
  /\ HasTraj
  /\ \E dtype \in Dtypes :
       Converted("to", to(traj, dtype, traj.kz.device), [T |-> traj, dtype |-> dtype])

\* traj = traj.cuda()
Cuda ==
  /\ HasTraj
  /\ Converted("cuda", cuda(traj), [T |-> traj])

\* traj = traj.cpu()
Cpu ==
  /\ HasTraj
  /\ Converted("cpu", cpu(traj), [T |-> traj])

\* The stack axes of a container: 0 .. rank of the broadcast shape.
StackDims(T) == 0..Len(broadcasted_shape(T).shape)

\* traj = KTrajectory.from_tensor(traj.as_tensor(stack_dim), stack_dim,
\*                                traj.repeat_detection_tolerance)
RoundTrip ==
  /\ HasTraj
  /\ \E stack_dim \in StackDims(traj) :
       LET tensor == as_tensor(traj, stack_dim)
           r == from_tensor(tensor, stack_dim, traj.repeat_detection_tolerance,
                            Num(DefaultGridTol))
       IN  /\ traj' = r.T
           /\ raised' = r.raised
           /\ ret' = tensor
           /\ args' = [T |-> traj, stack_dim |-> stack_dim]
  /\ op' = "roundtrip"

\* traj = KTrajectory(traj.kz, traj.ky, traj.kx, traj.grid_detection_tolerance,
\*                    traj.repeat_detection_tolerance)
Reconstruct ==
  /\ HasTraj
  /\ LET r == KTrajectory(traj.kz, traj.ky, traj.kx, traj.grid_detection_tolerance,
                          traj.repeat_detection_tolerance)
     IN  /\ traj' = r.T
         /\ raised' = r.raised
  /\ args' = [T |-> traj]
  /\ op' = "reconstruct"
  /\ ret' = NoRet

Next ==
  \/ Construct
  \/ FromTensor
  \/ To
  \/ Cuda
  \/ Cpu
  \/ RoundTrip
  \/ Reconstruct

\* A session: construction, then any sequence of conversions, exports and
\* reconstructions.
Spec == Init /\ [][Next]_vars

\* Construction alone, over the enumerated inputs and every tolerance pair,
\* followed by reconstruction from the stored arrays.
ConstructAny == ConstructFrom(InputTriples, TolPairs)

FromTensorAny ==
  FromTensorFrom(StackedInputs, {NoneTol, Num(FromTensorRepeatTol), Num(0)},
                 {Num(DefaultGridTol), Num(-DefaultGridTol)})

ReconstructOnce ==
  /\ op \in {"construct", "from_tensor"}
  /\ Reconstruct

NextInputs ==
  \/ ConstructAny
  \/ FromTensorAny
  \/ ReconstructOnce

SpecInputs == Init /\ [][NextInputs]_vars

\* ============================================================ ConstraintsOp
\* Model of mrpro.operators.ConstraintsOp.  A bound is None, -inf, +inf, nan or
\* a finite number (an integer here).  The operator works elementwise, so a
\* tensor is one finite element.  An element is a record
\*     [kind, v, fn, lb, ub, beta]:
\* a finite number v (kind "num"), -inf, +inf, nan, or the value of one of the
\* source's expressions in sigmoid / softplus at the element v with the bounds
\* lb, ub and the steepness beta (kind "expr"): these values are not rational,
\* so the expression stands for its value.  For a finite v every such value is
\* finite and differs from v's own record.

\* Largest number of bound pairs of an operator.
MaxBounds == 2
\* Largest number of tensors given to forward / inverse.
MaxInputs == 3

NoBound == [kind |-> "None", v |-> 0]
NegInf == [kind |-> "-inf", v |-> 0]
PosInf == [kind |-> "+inf", v |-> 0]
NanBound == [kind |-> "nan", v |-> 0]

Plain(v) == [kind |-> "num", v |-> v, fn |-> "x", lb |-> 0, ub |-> 0, beta |-> 0]
Special(kind) == [kind |-> kind, v |-> 0, fn |-> "x", lb |-> 0, ub |-> 0, beta |-> 0]
Expr(fn, v, lb, ub, beta) ==
  [kind |-> "expr", v |-> v, fn |-> fn, lb |-> lb, ub |-> ub, beta |-> beta]

\* torch.isneginf / isposinf / isnan of torch.tensor(bound), bound not None.
isneginf(b) == b.kind = "-inf"
isposinf(b) == b.kind = "+inf"
isnan(b) == b.kind = "nan"

\* lb >= ub for floats: False when either is nan.
BoundGeq(lb, ub) ==
  CASE isnan(lb) \/ isnan(ub) -> FALSE
    [] isposinf(lb) \/ isneginf(ub) -> TRUE
    [] isneginf(lb) \/ isposinf(ub) -> FALSE
    [] OTHER -> lb.v >= ub.v

\* for lb, ub in bounds: the pair __init__ raises ValueError for.
InvalidBoundPair(lb, ub) ==
  /\ lb.kind # "None"
  /\ ub.kind # "None"
  /\ (isnan(lb) \/ isnan(ub) \/ BoundGeq(lb, ub))

NoOp == [none |-> TRUE]

\* ConstraintsOp(bounds, beta_sigmoid, beta_softplus): [raised, self].
ConstraintsOp(bounds, beta_sigmoid, beta_softplus) ==
  IF beta_sigmoid <= 0 \/ beta_softplus <= 0
       \/ \E i \in 1..Len(bounds) : InvalidBoundPair(bounds[i][1], bounds[i][2])
  THEN [raised |-> "ValueError", self |-> NoOp]
  ELSE [raised |-> "none",
        self |-> [beta_sigmoid |-> beta_sigmoid, beta_softplus |-> beta_softplus,
                  lower_bounds |-> [i \in 1..Len(bounds) |-> bounds[i][1]],
                  upper_bounds |-> [i \in 1..Len(bounds) |-> bounds[i][2]]]]

\* forward, first branch: lb + (ub - lb) * sigmoid(item); lb < ub finite here,
\* __init__ having rejected every other pair that reaches the branch.
forward_sigmoid(item, lb, ub, beta) ==
  Expr("lb + (ub - lb) * sigmoid(x)", item.v, lb.v, ub.v, beta)

\* forward, second branch: lb + softplus(item), softplus(item) finite.
forward_lower(item, lb, beta) ==
  IF lb.kind = "num" THEN Expr("lb + softplus(x)", item.v, lb.v, 0, beta)
  ELSE Special(lb.kind)

\* forward, third branch: ub - softplus(-item).
forward_upper(item, ub, beta) ==
  IF ub.kind = "num" THEN Expr("ub - softplus(-x)", item.v, 0, ub.v, beta)
  ELSE Special(ub.kind)

\* The body of forward's loop for one item and its bounds.
forward_item(self, item, lb, ub) ==
  IF (lb.kind # "None" /\ ~isneginf(lb)) /\ (ub.kind # "None" /\ ~isposinf(ub))
  THEN forward_sigmoid(item, lb, ub, self.beta_sigmoid)
  ELSE IF lb.kind # "None" /\ (ub.kind = "None" \/ isposinf(ub))
  THEN forward_lower(item, lb, self.beta_softplus)
  ELSE IF (lb.kind = "None" \/ isneginf(lb)) /\ ub.kind # "None"
  THEN forward_upper(item, ub, self.beta_softplus)
  ELSE item

\* inverse, first branch: sigmoid_inverse((item - lb) / (ub - lb)).
inverse_sigmoid(item, lb, ub, beta) ==
  Expr("sigmoid_inverse((x - lb) / (ub - lb))", item.v, lb.v, ub.v, beta)

\* inverse, second branch: softplus_inverse(item - lb), which is
\* beta * y + log(-expm1(-beta * y)) at y = item - lb: +inf at y = +inf
\* (lb = -inf), nan at y = -inf (lb = +inf) and at nan.
inverse_lower(item, lb, beta) ==
  CASE lb.kind = "num" -> Expr("softplus_inverse(x - lb)", item.v, lb.v, 0, beta)
    [] isneginf(lb) -> Special("+inf")
    [] OTHER -> Special("nan")

\* inverse, third branch: -softplus_inverse(-(item - ub)): -inf at ub = +inf,
\* nan at ub = -inf and at nan.
inverse_upper(item, ub, beta) ==
  CASE ub.kind = "num" -> Expr("-softplus_inverse(-(x - ub))", item.v, 0, ub.v, beta)
    [] isposinf(ub) -> Special("-inf")
    [] OTHER -> Special("nan")

\* The body of inverse's loop for one item and its bounds.
inverse_item(self, item, lb, ub) ==
  IF (lb.kind # "None" /\ ~isneginf(lb)) /\ (ub.kind # "None" /\ ~isposinf(ub))
  THEN inverse_sigmoid(item, lb, ub, self.beta_sigmoid)
  ELSE IF lb.kind # "None" /\ (ub.kind = "None" \/ isposinf(ub))
  THEN inverse_lower(item, lb, self.beta_softplus)
  ELSE IF (lb.kind = "None" \/ isneginf(lb)) /\ ub.kind # "None"
  THEN inverse_upper(item, ub, self.beta_softplus)
  ELSE item

\* zip(x, lower_bounds, upper_bounds, strict=False) stops at the shorter; the
\* remaining inputs are appended as they are.
forward(self, x) ==
  [i \in 1..Len(x) |->
     IF i <= Len(self.lower_bounds)
     THEN forward_item(self, x[i], self.lower_bounds[i], self.upper_bounds[i])
     ELSE x[i]]

inverse(self, x_constrained) ==
  [i \in 1..Len(x_constrained) |->
     IF i <= Len(self.lower_bounds)
     THEN inverse_item(self, x_constrained[i], self.lower_bounds[i], self.upper_bounds[i])
     ELSE x_constrained[i]]

\* The bounds given to an operator: lower None, -inf, 0 or nan, upper None,
\* +inf, 1 or 0.
LowerBounds == {NoBound, NegInf, Num(0), NanBound}
UpperBounds == {NoBound, PosInf, Num(1), Num(0)}
BoundsLists == UNION {[1..n -> LowerBounds \X UpperBounds] : n \in 0..MaxBounds}
Betas == {0, 1}

\* The tensors given to forward / inverse: up to MaxInputs elements -1 or 2.
Items == {Plain(-1), Plain(2)}
ItemLists == UNION {[1..n -> Items] : n \in 0..MaxInputs}

\* The operator the program holds, when its construction returned.
HasOp == op \in {"ConstraintsOp", "forward", "inverse"} /\ raised = "none"

\* constraints_op = ConstraintsOp(bounds, beta_sigmoid, beta_softplus)
ConstraintsInit ==
  /\ op = "init"
  /\ \E bounds \in BoundsLists : \E bs \in Betas : \E bp \in Betas :
       LET r == ConstraintsOp(bounds, bs, bp)
       IN  /\ raised' = r.raised
           /\ args' = [self |-> r.self, bounds |-> bounds, x |-> << >>]
  /\ op' = "ConstraintsOp"
  /\ ret' = NoRet
  /\ UNCHANGED traj

\* ret = constraints_op.forward(*x)
Forward ==
  /\ HasOp
  /\ \E x \in ItemLists :
       /\ ret' = forward(args.self, x)
       /\ args' = [args EXCEPT !.x = x]
  /\ op' = "forward"
  /\ UNCHANGED << traj, raised >>

\* ret = constraints_op.inverse(*x_constrained)
Inverse ==
  /\ HasOp
  /\ \E x \in ItemLists :
       /\ ret' = inverse(args.self, x)
       /\ args' = [args EXCEPT !.x = x]
  /\ op' = "inverse"
  /\ UNCHANGED << traj, raised >>

NextConstraints ==
  \/ ConstraintsInit
  \/ Forward
  \/ Inverse

SpecConstraints == Init /\ [][NextConstraints]_vars

\* =================================================================== claims
Conversions == {"to", "cuda", "cpu"}
Constructions == {"construct", "from_tensor"}

\* The shapes of the three arrays of a container.
ShapesOf(T) == << T.kz.shape, T.ky.shape, T.kx.shape >>

\* Some axis, counted from the last, has two different lengths of which
\* neither is 1.
Conflicting(s1, s2) ==
  \E k \in 0..(Len(s1) - 1) :
    /\ k < Len(s2)
    /\ s1[Len(s1) - k] # s2[Len(s2) - k]
    /\ s1[Len(s1) - k] # 1
    /\ s2[Len(s2) - k] # 1

NotBroadcastable(s1, s2, s3) ==
  Conflicting(s1, s2) \/ Conflicting(s1, s3) \/ Conflicting(s2, s3)

\* C1: a conversion to() / cuda() / cpu() returns a container with the tolerances
\* of the container it was called on and with arrays of the same shapes.
C1_ConversionKeepsTolerancesAndShapes ==
  op \in Conversions =>
    /\ HasTraj
    /\ traj.grid_detection_tolerance = args.T.grid_detection_tolerance
    /\ traj.repeat_detection_tolerance = args.T.repeat_detection_tolerance
    /\ ShapesOf(traj) = ShapesOf(args.T)

\* A conversion that keeps the element values: a move between devices, or a
\* change to a floating dtype.
ValuePreserving ==
  \/ op \in {"cuda", "cpu"}
  \/ op = "to" /\ args.dtype \in FloatDtypes

\* C2: the classification of a container is that of the container it was
\* converted from, for every value-preserving conversion.
C2_ClassificationInvariantUnderConversion ==
  ValuePreserving =>
    /\ HasTraj
    /\ type_along_kzyx(traj) = type_along_kzyx(args.T)
    /\ type_along_k210(traj) = type_along_k210(args.T)

\* The three-array constructor was called with arrays whose shapes are not
\* mutually broadcastable.
ConflictingInputs ==
  /\ op = "construct"
  /\ NotBroadcastable(args.kz.shape, args.ky.shape, args.kx.shape)

\* C3 as stated: with the default repeat_detection_tolerance, a construction from
\* arrays whose input shapes are not mutually broadcastable raises and returns no
\* container, whatever the element values.
C3_ConflictingInputShapesRaise ==
  (ConflictingInputs /\ args.rtol = Num(DefaultRepeatTol)) =>
    raised = "ValueError" /\ ~HasTraj

\* The shape the constructor stores for an input array: axes along which the
\* array is constant within the repeat tolerance have length 1.
ReducedShape(t, rtol) ==
  IF rtol.kind = "None" THEN t.shape
  ELSE [d \in 1..Len(t.shape) |->
          IF \A i \in DOMAIN t.vals : \A j \in DOMAIN t.vals :
               (\A e \in 1..Len(t.shape) : e # d => i[e] = j[e])
                 => LeqTol(Abs(t.vals[i] - t.vals[j]), rtol)
          THEN 1 ELSE t.shape[d]]

\* C3 as amended: a construction raises ValueError and returns no container
\* whenever the shapes left by repeat reduction (the input shapes when
\* repeat_detection_tolerance is None) are not mutually broadcastable; it returns
\* a container when they are broadcastable to at least 4 axes, also when the
\* input shapes were not.
C3_ConflictingReducedShapesRaise ==
  op = "construct" =>
    LET sz == ReducedShape(args.kz, args.rtol)
        sy == ReducedShape(args.ky, args.rtol)
        sx == ReducedShape(args.kx, args.rtol)
    IN  /\ NotBroadcastable(sz, sy, sx) => (raised = "ValueError" /\ ~HasTraj)
        /\ (~NotBroadcastable(sz, sy, sx)
              /\ Max2(Len(sz), Max2(Len(sy), Len(sx))) >= MinRank)
             => (raised = "none" /\ HasTraj)

\* C3 witness: arrays of conflicting shapes, not constant along the conflicting
\* axis, given with the default repeat tolerance: the construction raised.
C3_Witness ==
  /\ ConflictingInputs
  /\ args.rtol = Num(DefaultRepeatTol)
  /\ NotBroadcastable(ReducedShape(args.kz, args.rtol), ReducedShape(args.ky, args.rtol),
                      ReducedShape(args.kx, args.rtol))
  /\ raised = "ValueError"
  /\ ~HasTraj

\* The three arrays of a container, in the order kz, ky, kx.
ArraysIn(T) == << T.kz, T.ky, T.kx >>

\* The length of an array along k2 (a = 1), k1 (a = 2) or k0 (a = 3).
Trailing(t, a) == t.shape[Len(t.shape) - 3 + a]

\* An array is on the grid as a whole: integer-typed, or every element within
\* the tolerance of its nearest integer.
OnGridWhole(t, tol) ==
  \/ t.dtype = "int32"
  \/ \A i \in DOMAIN t.vals :
       LET k == (Abs(t.vals[i]) \div One) + 1
       IN  \E n \in (-k)..k :
             /\ 2 * Abs(t.vals[i] - n * One) <= One
             /\ LeqTol(Abs(t.vals[i] - n * One), tol)

\* C4: the classifier returns the AND-combination of the per-cell flags: along a
\* direction, SINGLEVALUE iff the array has length 1 on k2, k1 and k0, and ONGRID
\* iff the array is on the grid as a whole or has length 1 on k2, k1 and k0;
\* along an axis, SINGLEVALUE iff the three arrays have length 1 on it, and
\* ONGRID iff each array is on the grid as a whole or has length 1 on it.
C4_ClassifierIsAndOfCells ==
  HasTraj =>
    LET ks == ArraysIn(traj)
        tol == traj.grid_detection_tolerance
        zyx == type_along_kzyx(traj)
        k210 == type_along_k210(traj)
    IN  /\ \A d \in 1..3 :
             /\ zyx[d] \subseteq {"SINGLEVALUE", "ONGRID"}
             /\ "SINGLEVALUE" \in zyx[d] <=> \A a \in 1..3 : Trailing(ks[d], a) = 1
             /\ "ONGRID" \in zyx[d]
                  <=> (OnGridWhole(ks[d], tol) \/ \A a \in 1..3 : Trailing(ks[d], a) = 1)
        /\ \A a \in 1..3 :
             /\ k210[a] \subseteq {"SINGLEVALUE", "ONGRID"}
             /\ "SINGLEVALUE" \in k210[a] <=> \A d \in 1..3 : Trailing(ks[d], a) = 1
             /\ "ONGRID" \in k210[a]
                  <=> \A d \in 1..3 : OnGridWhole(ks[d], tol) \/ Trailing(ks[d], a) = 1

\* C4 witness: a container with an array that is off the grid, and an axis of
\* length 1 in all three arrays that is classified SINGLEVALUE and ONGRID, next
\* to an axis that is classified neither.
C4_Witness ==
  /\ HasTraj
  /\ \E d \in 1..3 : ~OnGridWhole(ArraysIn(traj)[d], traj.grid_detection_tolerance)
  /\ \E a \in 1..3 :
       /\ \A d \in 1..3 : Trailing(ArraysIn(traj)[d], a) = 1
       /\ type_along_k210(traj)[a] = {"SINGLEVALUE", "ONGRID"}
  /\ \E a \in 1..3 : type_along_k210(traj)[a] = {}

\* The array holds 0.0004, -0.0003, 0.0 along the axis and has length 1 on the
\* other axes.
HoldsScenarioAlong(t, axis) ==
  /\ Len(t.shape) = MinRank
  /\ \A d \in 1..MinRank : t.shape[d] = (IF d = axis THEN 3 ELSE 1)
  /\ \A i \in DOMAIN t.vals :
       t.vals[i] = (IF i[axis] = 1 THEN 40000 ELSE IF i[axis] = 2 THEN -30000 ELSE 0)

\* The inputs kz, ky, kx of the three-array constructor.
InputArrays == << args.kz, args.ky, args.kx >>

\* C5 as stated: an array holding 0.0004, -0.0003, 0.0 along one axis, given to
\* the three-array constructor with the default repeat tolerance, is ONGRID for
\* its direction with grid tolerance 1e-3 and not ONGRID with 1e-4.
C5_ScenarioWithDefaultRepeatTol ==
  (op = "construct" /\ HasTraj /\ args.rtol = Num(DefaultRepeatTol)) =>
    \A d \in 1..3 :
      (\E axis \in 1..MinRank : HoldsScenarioAlong(InputArrays[d], axis)) =>
        /\ args.gtol = Num(DefaultGridTol) => "ONGRID" \in type_along_kzyx(traj)[d]
        /\ args.gtol = Num(10000) => "ONGRID" \notin type_along_kzyx(traj)[d]

\* C5 as amended: for an array holding 0.0004, -0.0003, 0.0 along one of k2, k1,
\* k0: with grid tolerance 1e-3 its direction is ONGRID; with grid tolerance 1e-4
\* it is not ONGRID when repeat detection is None or below the spread 0.0007 of
\* the values, and it is ONGRID and SINGLEVALUE when the repeat tolerance is the
\* default 1e-3, which reduces the axis to one element.
C5_ScenarioFollowsRepeatTol ==
  (op = "construct" /\ HasTraj) =>
    \A d \in 1..3 :
      (\E axis \in 2..MinRank : HoldsScenarioAlong(InputArrays[d], axis)) =>
        /\ args.gtol = Num(DefaultGridTol) => "ONGRID" \in type_along_kzyx(traj)[d]
        /\ (args.gtol = Num(10000) /\ ~LeqTol(70000, args.rtol))
             => "ONGRID" \notin type_along_kzyx(traj)[d]
        /\ (args.gtol = Num(10000) /\ args.rtol = Num(DefaultRepeatTol))
             => type_along_kzyx(traj)[d] = {"SINGLEVALUE", "ONGRID"}

\* C5 witness: the scenario array along k0 as kx, grid tolerance 1e-4, repeat
\* detection disabled: kx is not ONGRID.
C5_Witness ==
  /\ op = "construct"
  /\ HasTraj
  /\ HoldsScenarioAlong(args.kx, MinRank)
  /\ args.gtol = Num(10000)
  /\ args.rtol = NoneTol
  /\ "ONGRID" \notin type_along_kzyx(traj)[3]

\* The dtypes of the kz, ky, kx given to a construction.
InputDtypes ==
  IF op = "construct" THEN << args.kz.dtype, args.ky.dtype, args.kx.dtype >>
  ELSE << args.tensor.dtype, args.tensor.dtype, args.tensor.dtype >>

\* C6 as stated: the arrays of every constructed container are floating-point,
\* for any repeat_detection_tolerance, None included.
C6_ArraysAlwaysFloat ==
  (op \in Constructions /\ HasTraj) =>
    \A d \in 1..3 : ArraysIn(traj)[d].dtype \in FloatDtypes

\* C6 as amended: when repeat_detection_tolerance is not None the arrays of a
\* constructed container are floating-point, integer inputs promoted to float32
\* and floating inputs keeping their dtype; when it is None the arrays keep the
\* dtypes of the inputs, integer ones included.
C6_ArraysFloatUnlessReductionDisabled ==
  (op \in Constructions /\ HasTraj) =>
    \A d \in 1..3 :
      ArraysIn(traj)[d].dtype =
        (IF args.rtol.kind # "None" /\ InputDtypes[d] \notin FloatDtypes
         THEN "float32" ELSE InputDtypes[d])

\* C6 witness: an integer kz given with a repeat tolerance is stored as float32.
C6_Witness ==
  /\ op = "construct"
  /\ HasTraj
  /\ args.kz.dtype = "int32"
  /\ args.rtol.kind # "None"
  /\ traj.kz.dtype = "float32"

\* The axis-wise broadcast of three shapes that are broadcastable.
AxiswiseBroadcast(s1, s2, s3) ==
  LET rank == Max2(Len(s1), Max2(Len(s2), Len(s3)))
      at(s, k) == IF k < Len(s) THEN s[Len(s) - k] ELSE 1
  IN  [d \in 1..rank |->
         Max2(at(s1, rank - d), Max2(at(s2, rank - d), at(s3, rank - d)))]

\* C7: every container the program holds, after construction and after any
\* sequence of conversions, has mutually broadcastable arrays with a broadcast
\* shape of at least 4 axes, so that broadcasted_shape does not raise and equals
\* the axis-wise broadcast of the stored shapes; an operation that raises leaves
\* no container, and a construction whose reduced arrays are not broadcastable
\* or broadcast to fewer than 4 axes raises.
C7_ContainersAreBroadcastable ==
  /\ HasTraj =>
       LET s == ShapesOf(traj)
       IN  /\ ~NotBroadcastable(s[1], s[2], s[3])
           /\ ~broadcasted_shape(traj).raised
           /\ Len(broadcasted_shape(traj).shape) >= MinRank
           /\ broadcasted_shape(traj).shape = AxiswiseBroadcast(s[1], s[2], s[3])
  /\ raised # "none" => ~HasTraj
  /\ op \in Conversions => raised = "none"
  /\ op = "construct" =>
       LET sz == ReducedShape(args.kz, args.rtol)
           sy == ReducedShape(args.ky, args.rtol)
           sx == ReducedShape(args.kx, args.rtol)
       IN  (NotBroadcastable(sz, sy, sx) \/ Max2(Len(sz), Max2(Len(sy), Len(sx))) < MinRank)
             => (raised = "ValueError" /\ ~HasTraj)

\* C7 witness: a container returned by a conversion of a container that was
\* itself returned by cuda(), whose arrays broadcast to more than one element.
C7_Witness ==
  /\ op \in Conversions
  /\ HasTraj
  /\ args.T.kz.device = "cuda"
  /\ Numel(broadcasted_shape(traj).shape) > 1
  /\ ShapesOf(traj)[1] # ShapesOf(traj)[3]

\* The element a broadcast view of t with a shape of rank `rank` has at index i.
BroadcastValue(t, i, rank) ==
  t.vals[[d \in 1..Len(t.shape) |->
            IF t.shape[d] = 1 THEN 1 ELSE i[d + rank - Len(t.shape)]]]

\* The broadcast shape of the container a round trip started from.
RoundTripShape ==
  AxiswiseBroadcast(args.T.kz.shape, args.T.ky.shape, args.T.kx.shape)

\* as_tensor returned an array one rank higher than the broadcast shape, with
\* size 3 on the stack axis and kz, ky, kx, expanded, as its slices 0, 1, 2.
AsTensorStacksExpanded ==
  LET B == RoundTripShape
  IN  /\ Len(ret.shape) = Len(B) + 1
      /\ ret.shape[args.stack_dim + 1] = 3
      /\ \A d \in 1..3 : \A i \in MIdx(B) :
           ret.vals[InsertAt(i, args.stack_dim, d)]
             = BroadcastValue(ArraysIn(args.T)[d], i, Len(B))

\* C8 as stated: from_tensor(T.as_tensor(s), stack_dim = s) with T's repeat
\* tolerance yields arrays with the shapes of T's arrays and, expanded to
\* T.broadcasted_shape, the values of T's arrays expanded to it; as_tensor
\* returns an array one rank higher with size 3 on axis s.
C8_RoundTripKeepsShapesAndValues ==
  op = "roundtrip" =>
    /\ HasTraj
    /\ AsTensorStacksExpanded
    /\ ShapesOf(traj) = ShapesOf(args.T)
    /\ \A d \in 1..3 : \A i \in MIdx(RoundTripShape) :
         BroadcastValue(ArraysIn(traj)[d], i, Len(RoundTripShape))
           = BroadcastValue(ArraysIn(args.T)[d], i, Len(RoundTripShape))

\* C8 as amended: as_tensor returns an array one rank higher than the broadcast
\* shape with size 3 on axis s, whose slices 0, 1, 2 are kz, ky, kx expanded to
\* T.broadcasted_shape; from_tensor(T.as_tensor(s), stack_dim = s) with T's
\* repeat tolerance returns a trajectory whose kz, ky, kx are what the constructor
\* stores for those expanded arrays: with tolerance None the expanded arrays
\* themselves (each of shape T.broadcasted_shape, with T's values), otherwise
\* their repeat reductions, every axis of length 1 or of the broadcast length and
\* every element the expanded array's element at the same index.
C8_RoundTripStoresExpandedArrays ==
  op = "roundtrip" =>
    /\ HasTraj
    /\ AsTensorStacksExpanded
    /\ \A d \in 1..3 :
         LET B == RoundTripShape
             new == ArraysIn(traj)[d]
             old == ArraysIn(args.T)[d]
         IN  /\ Len(new.shape) = Len(B)
             /\ \A e \in 1..Len(B) : new.shape[e] \in {1, B[e]}
             /\ args.T.repeat_detection_tolerance = NoneTol => new.shape = B
             /\ args.T.repeat_detection_tolerance # NoneTol
                  => new.shape = ReducedShape(expand(old, B),
                                              args.T.repeat_detection_tolerance)
             /\ \A i \in DOMAIN new.vals : new.vals[i] = BroadcastValue(old, i, Len(B))

\* C8 witness: a round trip of a container built without repeat detection whose
\* kz and kx differ in shape: the arrays returned all have the broadcast shape.
C8_Witness ==
  /\ op = "roundtrip"
  /\ HasTraj
  /\ args.T.repeat_detection_tolerance = NoneTol
  /\ args.T.kz.shape # args.T.kx.shape
  /\ traj.kz.shape = RoundTripShape
  /\ traj.kx.shape = RoundTripShape
  /\ Numel(RoundTripShape) > 1

\* C9: constructing a KTrajectory from the kz, ky, kx of an existing one, with
\* the same tolerances, yields arrays of identical shapes and values: repeat
\* reduction of reduced arrays changes nothing.
C9_ReductionIsIdempotent ==
  op = "reconstruct" =>
    /\ HasTraj
    /\ \A d \in 1..3 :
         /\ ArraysIn(traj)[d].shape = ArraysIn(args.T)[d].shape
         /\ ArraysIn(traj)[d].vals = ArraysIn(args.T)[d].vals

\* A grid tolerance that is negative or not finite.
InvalidGridTol(tol) == tol.kind \in {"inf", "nan"} \/ (tol.kind = "num" /\ tol.v < 0)

\* A repeat tolerance that is given and is not positive or not finite.
InvalidRepeatTol(tol) == tol.kind \in {"inf", "nan"} \/ (tol.kind = "num" /\ tol.v <= 0)

\* C10: a construction given a negative or non-finite grid tolerance, or a
\* non-positive or non-finite repeat tolerance, raises and returns no container.
C10_InvalidTolerancesRaise ==
  (op \in Constructions /\ (InvalidGridTol(args.gtol) \/ InvalidRepeatTol(args.rtol)))
    => (raised # "none" /\ ~HasTraj)

\* The size of the tensor given to from_tensor along stack_dim.
StackSize == args.tensor.shape[args.stack_dim + 1]

\* The slice of the tensor given to from_tensor at 0-based index k of stack_dim.
SliceAt(k) ==
  LET shape == [d \in 1..(Len(args.tensor.shape) - 1) |->
                  args.tensor.shape[IF d <= args.stack_dim THEN d ELSE d + 1]]
  IN  [shape |-> shape, dtype |-> args.tensor.dtype, device |-> args.tensor.device,
       vals |-> [i \in MIdx(shape) |->
                   args.tensor.vals[[d \in 1..Len(args.tensor.shape) |->
                                       IF d <= args.stack_dim THEN i[d]
                                       ELSE IF d = args.stack_dim + 1 THEN k + 1
                                       ELSE i[d - 1]]]]]

\* C11: from_tensor raises and returns no container when the size of the tensor
\* along stack_dim is not 3; when it is 3 its outcome is that of the three-array
\* constructor given the slices 0, 1, 2 as kz, ky, kx with the caller's
\* repeat_detection_tolerance and grid_detection_tolerance.
C11_FromTensorNeedsThreeSlices ==
  op = "from_tensor" =>
    /\ StackSize # 3 => (raised # "none" /\ ~HasTraj)
    /\ StackSize = 3 =>
         LET r == KTrajectory(SliceAt(0), SliceAt(1), SliceAt(2), args.gtol, args.rtol)
         IN  /\ raised = r.raised
             /\ traj = r.T
             /\ HasTraj =>
                  /\ traj.grid_detection_tolerance = args.gtol
                  /\ traj.repeat_detection_tolerance = args.rtol
                  /\ args.rtol = NoneTol =>
                       ArraysIn(traj) = << SliceAt(0), SliceAt(1), SliceAt(2) >>

\* C11 witness: a tensor with more than 3 slices along its last axis was given
\* to from_tensor, which raised.
C11_Witness ==
  /\ op = "from_tensor"
  /\ StackSize > 3
  /\ args.stack_dim = MinRank
  /\ raised = "ValueError"
  /\ ~HasTraj

\* A tensor with 3 different slices was given to from_tensor without repeat
\* detection, and the container holds them as kz, ky, kx.
C11_ThreeSlicesStored ==
  /\ op = "from_tensor"
  /\ StackSize = 3
  /\ args.rtol = NoneTol
  /\ HasTraj
  /\ traj.kz.vals # traj.kx.vals
  /\ traj.kz.vals # traj.ky.vals

\* No slice at all was given to from_tensor, which raised.
C11_EmptyRaised ==
  /\ op = "from_tensor"
  /\ StackSize = 0
  /\ raised = "ValueError"

\* The bound counts as missing on the lower side / on the upper side.
NoLower(lb) == lb \in {NoBound, NegInf}
NoUpper(ub) == ub \in {NoBound, PosInf}

\* The i-th output is what the lower-only (softplus) branch of the operation
\* yields for the i-th input with the finite lower bound lb.
LowerOnlyBranch(i, lb) ==
  ret[i] = Expr(IF op = "forward" THEN "lb + softplus(x)" ELSE "softplus_inverse(x - lb)",
                args.x[i].v, lb.v, 0, args.self.beta_softplus)

\* The i-th output is what the upper-only branch of the operation yields for the
\* i-th input with the finite upper bound ub.
UpperOnlyBranch(i, ub) ==
  ret[i] = Expr(IF op = "forward" THEN "ub - softplus(-x)"
                ELSE "-softplus_inverse(-(x - ub))",
                args.x[i].v, 0, ub.v, args.self.beta_softplus)

\* C12: forward and inverse return one entry per input; an input beyond the
\* bounds, or with a lower bound None or -inf and an upper bound None or +inf,
\* is passed through; with a finite lower bound and an upper bound None or +inf
\* the lower-only branch is taken, with a lower bound None or -inf and a finite
\* upper bound the upper-only branch, by forward and by inverse alike.
C12_InfiniteBoundIsMissingBound ==
  op \in {"forward", "inverse"} =>
    /\ Len(ret) = Len(args.x)
    /\ \A i \in 1..Len(args.x) :
         IF i > Len(args.bounds) THEN ret[i] = args.x[i]
         ELSE LET lb == args.bounds[i][1]
                  ub == args.bounds[i][2]
              IN  /\ (NoLower(lb) /\ NoUpper(ub)) => ret[i] = args.x[i]
                  /\ (lb.kind = "num" /\ NoUpper(ub)) => LowerOnlyBranch(i, lb)
                  /\ (NoLower(lb) /\ ub.kind = "num") => UpperOnlyBranch(i, ub)

\* The part of C12 that does not involve an infinite bound standing alone on
\* its side: the same statement for the pairs other than (-inf, None),
\* (-inf, +inf) and (None, +inf).
C12_HoldsApartFromInfiniteAlone ==
  op \in {"forward", "inverse"} =>
    /\ Len(ret) = Len(args.x)
    /\ \A i \in 1..Len(args.x) :
         IF i > Len(args.bounds) THEN ret[i] = args.x[i]
         ELSE LET lb == args.bounds[i][1]
                  ub == args.bounds[i][2]
              IN  /\ (lb = NoBound /\ ub = NoBound) => ret[i] = args.x[i]
                  /\ (lb.kind = "num" /\ NoUpper(ub)) => LowerOnlyBranch(i, lb)
                  /\ (NoLower(lb) /\ ub.kind = "num") => UpperOnlyBranch(i, ub)

\* forward was given an input whose bounds are (-inf, None) and returned -inf
\* for it.
C12_InfiniteLowerTransformed ==
  /\ op = "forward"
  /\ Len(args.x) >= 1
  /\ Len(args.bounds) >= 1
  /\ args.bounds[1] = << NegInf, NoBound >>
  /\ ret[1] = Special("-inf")

====
